---- MODULE Spec2Model ----
(***************************************************************************)
(* Model of the food-item API of the pantry tracker                        *)
(* (src/src/app/api/fooditem/route.ts) over the storage schema of          *)
(* src/prisma/schema.prisma.                                               *)
(*                                                                         *)
(* route.ts holds two revisions of the handlers.  Lines 319-651 are the    *)
(* current one (transactions, fire-and-forget file deletion); its handlers *)
(* are POST, PUT and the DELETE steps.  Lines 1-318 are the earlier one;   *)
(* its DELETE, which awaits the file deletion before it touches the        *)
(* database, is modelled by the DELETE_r1 steps.                           *)
(*                                                                         *)
(* A JSON value is a record [t, v]: t is its kind, v its content.  A uuid  *)
(* is modelled by a natural number: the n-th uuid generated.  A request    *)
(* body is a record with every key the handlers read; a key the request    *)
(* does not carry holds Undef, as destructuring yields undefined in JS.    *)
(***************************************************************************)
EXTENDS Integers, Sequences, FiniteSets, TLC

\* Number of requests the server accepts in one run.
MaxRequests == 3

-----------------------------------------------------------------------------
(* JSON values                                                             *)

Undef == [t |-> "undefined", v |-> "undefined"]
Null == [t |-> "null", v |-> "null"]
Str(s) == [t |-> "string", v |-> s]
Num(n) == [t |-> "number", v |-> n]
Bool(b) == [t |-> "boolean", v |-> b]
Arr(a) == [t |-> "array", v |-> a]

\* JavaScript's typeof: null and arrays are objects.
TypeOf(x) == IF x.t \in {"null", "array"} THEN "object" ELSE x.t

\* JavaScript truthiness of a JSON value, as `imageUrl || null` and
\* `if (result.imageUrl)` use it.
Truthy(x) ==
  CASE x.t = "undefined" -> FALSE
    [] x.t = "null" -> FALSE
    [] x.t = "string" -> x.v # ""
    [] x.t = "number" -> x.v # 0
    [] x.t = "boolean" -> x.v
    [] OTHER -> TRUE

Range(s) == {s[i] : i \in 1..Len(s)}

-----------------------------------------------------------------------------
(* Values the requests are drawn from                                      *)

KeyUrl == "https://utfs.io/f/k1"
OtherKeyUrl == "https://utfs.io/f/k2?x=1"
PlainUrl == "https://example.com/milk.png"

\* The date strings requests carry.
DateStrings ==
  {"2024-01-10", "2024-01-10T00:00:00.000Z", "2024-01-05", "soon"}

\* new Date(s): the time value of a date string (a day number stands for the
\* time value), or not ok for a string that does not parse (Invalid Date).
\* Two spellings of one instant parse to the same time value.
ParseDate(s) ==
  CASE s = "2024-01-10" -> [ok |-> TRUE, time |-> 10]
    [] s = "2024-01-10T00:00:00.000Z" -> [ok |-> TRUE, time |-> 10]
    [] s = "2024-01-05" -> [ok |-> TRUE, time |-> 5]
    [] s = "2024-01-05T00:00:00.000Z" -> [ok |-> TRUE, time |-> 5]
    [] OTHER -> [ok |-> FALSE, time |-> 0]

\* url.match(/\/f\/([^/?]+)/): the path segment after "/f/", or null.
extractFileKeyFromUrl(url) ==
  CASE url = KeyUrl -> Str("k1")
    [] url = OtherKeyUrl -> Str("k2")
    [] OTHER -> Null

\* A request body that is not JSON text (an empty body, a cut-off one):
\* request.json() throws on it.
Unparsable == [t |-> "unparsable", v |-> "unparsable"]

\* A parsed body is a JSON object, with the keys of NoBody, or a JSON value
\* that is not one, such as null.
IsObject(b) == "t" \notin DOMAIN b
ParsesAsJson(b) == IsObject(b) \/ b.t # "unparsable"

NoBody ==
  [id |-> Undef, name |-> Undef, expirationDate |-> Undef, quantity |-> Undef,
   imageUrl |-> Undef, keywords |-> Undef, placement |-> Undef,
   hidden |-> Undef, categoryNames |-> Undef]

With(b, k, x) == [b EXCEPT ![k] = x]

Milk ==
  [NoBody EXCEPT !.name = Str("Milk"), !.expirationDate = Str("2024-01-10"),
                 !.quantity = Num(2), !.placement = Str("Fridge")]

Eggs ==
  [NoBody EXCEPT !.name = Str("Eggs"), !.expirationDate = Str("2024-01-05"),
                 !.quantity = Num(5), !.placement = Str("Pantry"),
                 !.imageUrl = Str(KeyUrl), !.keywords = Arr(<<"dairy">>),
                 !.categoryNames = Arr(<<"A", "B">>)]

\* The bodies POST is tried on: the required fields alone, every optional
\* field, a repeated category name, the falsy and key-less image references,
\* a quantity of 0, an unparseable date, a missing required field, a blank
\* name, the JSON value null and a body that is not JSON.
CreateBodies ==
  { Milk, Eggs,
    With(Milk, "categoryNames", Arr(<<"A">>)),
    With(Milk, "categoryNames", Arr(<<"A", "A">>)),
    With(Milk, "categoryNames", Arr(<<>>)),
    With(Milk, "imageUrl", Str("")),
    With(Milk, "imageUrl", Str(PlainUrl)),
    With(Milk, "quantity", Num(0)),
    With(Milk, "expirationDate", Str("soon")),
    With(Milk, "name", Undef),
    With(Milk, "name", Str(" ")),
    Null, Unparsable }

-----------------------------------------------------------------------------
(* State                                                                   *)

VARIABLES
  foodItems,       \* table FoodItem: id -> row
  foodCategories,  \* table FoodCategory: set of rows [id, name]
  links,           \* table FoodCategoryOnFoodItem: rows [foodItemId, foodCategoryId]
  issued,          \* number of FoodItem uuids generated so far
  nreq,            \* number of requests accepted so far
  inflight,        \* handlers suspended at an await
  fileOps,         \* utapi.deleteFiles calls: [rid, item, key, status]
  resp,            \* the response sent last, with the request it answers
  page             \* the listing page (page.tsx): its React state

vars ==
  <<foodItems, foodCategories, links, issued, nreq, inflight, fileOps, resp, page>>
db == <<foodItems, foodCategories, links, issued>>
server == <<db, nreq, inflight, fileOps, resp>>

\* The page when it is mounted: the useState initial values (strings are
\* sequences of characters), fetchFoodItems not yet called (pc), no timer,
\* and the list it shows.
PageInit ==
  [foodItems |-> <<>>, loading |-> TRUE, error |-> "null", searchTerm |-> <<>>,
   sortOrder |-> "name-asc", pc |-> "mount", timer |-> "off", shown |-> <<>>]

NoResponse ==
  [rid |-> 0, op |-> "none", session |-> FALSE, body |-> NoBody,
   status |-> 0, json |-> Null]

Init ==
  /\ foodItems = <<>>
  /\ foodCategories = {}
  /\ links = {}
  /\ issued = 0
  /\ nreq = 0
  /\ inflight = {}
  /\ fileOps = {}
  /\ resp = NoResponse
  /\ page = PageInit

-----------------------------------------------------------------------------
(* Validation layer                                                        *)

\* Mutant of Unauthorized: no session check.
Unauthorized_never(session) == FALSE

\* `const { userId } = await auth(); if (!userId)`: the request has no
\* valid session.
Unauthorized(session) == ~session

isValidCreateBody(b) ==
  /\ IsObject(b)
  /\ TypeOf(b.name) = "string"
  /\ TypeOf(b.expirationDate) = "string"
  /\ TypeOf(b.quantity) = "number"
  /\ TypeOf(b.placement) = "string"

isValidUpdateBody(b) == IsObject(b) /\ TypeOf(b.id) = "string"

isValidDeleteBody(b) == IsObject(b) /\ TypeOf(b.id) = "string"

-----------------------------------------------------------------------------
(* Storage: the Prisma calls of the handlers                               *)

\* uuid() of a new FoodCategory row: a value no row carries.
FreshCategoryId(cats) == Cardinality(cats) + 1

\* Mutant of connectOrCreate: a plain create, with no lookup by name.
connectOrCreate_create(cats, name) ==
  LET row == [id |-> FreshCategoryId(cats), name |-> name]
  IN [cats |-> cats \cup {row}, row |-> row]

\* connectOrCreate { where: { name }, create: { name } }: the row of that
\* name, looked up first and inserted only when there is none.
connectOrCreate(cats, name) ==
  IF \E c \in cats : c.name = name
    THEN [cats |-> cats, row |-> CHOOSE c \in cats : c.name = name]
    ELSE LET row == [id |-> FreshCategoryId(cats), name |-> name]
         IN [cats |-> cats \cup {row}, row |-> row]

\* categories: { create: names.map(...) }: one junction row per entry of
\* names, in order.  Inserting a second row with the same composite key
\* (foodItemId, foodCategoryId) violates the key (P2002) and fails the write.
\* Mutant of createCategories: no composite key on the junction, an entry
\* that repeats a link is accepted.
RECURSIVE createCategories_nokey(_, _, _, _)
createCategories_nokey(itemId, names, cats, lnks) ==
  IF names = <<>>
    THEN [ok |-> TRUE, cats |-> cats, links |-> lnks]
    ELSE LET r == connectOrCreate(cats, Head(names))
             row == [foodItemId |-> itemId, foodCategoryId |-> r.row.id]
         IN createCategories_nokey(itemId, Tail(names), r.cats, lnks \cup {row})

RECURSIVE createCategories(_, _, _, _)
createCategories(itemId, names, cats, lnks) ==
  IF names = <<>>
    THEN [ok |-> TRUE, cats |-> cats, links |-> lnks]
    ELSE LET r == connectOrCreate(cats, Head(names))
             row == [foodItemId |-> itemId, foodCategoryId |-> r.row.id]
         IN IF row \in lnks
              THEN [ok |-> FALSE, cats |-> cats, links |-> lnks]
              ELSE createCategories(itemId, Tail(names), r.cats, lnks \cup {row})

\* select: foodItemSelect: the row with its categories resolved.
foodItemSelect(items, cats, lnks, id) ==
  [id |-> id,
   name |-> items[id].name,
   expirationDate |-> items[id].expirationDate,
   quantity |-> items[id].quantity,
   imageUrl |-> items[id].imageUrl,
   keywords |-> items[id].keywords,
   placement |-> items[id].placement,
   hidden |-> items[id].hidden,
   categories |-> {c \in cats :
                     [foodItemId |-> id, foodCategoryId |-> c.id] \in lnks}]

Put(f, k, x) == [j \in DOMAIN f \cup {k} |-> IF j = k THEN x ELSE f[j]]

\* The response of request rid.
Send(rid, op, session, body, status, json) ==
  resp' = [rid |-> rid, op |-> op, session |-> session, body |-> body,
           status |-> status, json |-> json]

\* A handler that answers in the step that accepts the request.
Respond(op, session, body, status, json) ==
  /\ nreq' = nreq + 1
  /\ Send(nreq + 1, op, session, body, status, json)

Error(msg) == [error |-> msg]

-----------------------------------------------------------------------------
(* GET: read one, read all                                                 *)

\* The ids a request may name: every uuid issued so far, and one never issued.
UnknownId == 0
RequestIds == 0..issued

\* The values of the id query parameter: searchParams.get('id') is null
\* when the query has none.
Queries == {Null} \cup {Str(id) : id \in RequestIds}

\* Mutant of Visible: no `hidden: false` in the where clause.
Visible_all(items) == DOMAIN items

\* where: { hidden: false }
Visible(items) == {id \in DOMAIN items : ~items[id].hidden}

\* Mutant of orderBy: no orderBy clause, the rows come in any order.
orderBy_none(items, ids) ==
  {s \in [1..Cardinality(ids) -> ids] : \A i, j \in DOMAIN s : i # j => s[i] # s[j]}

\* orderBy: { expirationDate: 'asc' }: the ids in an order of ascending
\* expiration date.  The database is free in the order of rows of one date.
orderBy(items, ids) ==
  {s \in [1..Cardinality(ids) -> ids] :
     /\ \A i, j \in DOMAIN s : i # j => s[i] # s[j]
     /\ \A i, j \in DOMAIN s :
          i < j => items[s[i]].expirationDate <= items[s[j]].expirationDate}

\* prisma.foodItem.findMany: the results the listing may return.
findMany ==
  {[i \in DOMAIN s |-> foodItemSelect(foodItems, foodCategories, links, s[i])] :
     s \in orderBy(foodItems, Visible(foodItems))}

\* Mutant of GetOne: a hidden item is not found.
GetOne_visible(id) ==
  IF id \in DOMAIN foodItems /\ ~foodItems[id].hidden
    THEN [status |-> 200,
          json |-> foodItemSelect(foodItems, foodCategories, links, id)]
    ELSE [status |-> 404, json |-> Error("Food item not found.")]

\* Mutant of GetOne: the result of findUnique is returned unchecked.
GetOne_unchecked(id) ==
  [status |-> 200,
   json |-> IF id \in DOMAIN foodItems
              THEN foodItemSelect(foodItems, foodCategories, links, id)
              ELSE Null]

\* prisma.foodItem.findUnique and the answer: the item, or 404 when there is
\* no row of that id.
GetOne(id) ==
  IF id \in DOMAIN foodItems
    THEN [status |-> 200,
          json |-> foodItemSelect(foodItems, foodCategories, links, id)]
    ELSE [status |-> 404, json |-> Error("Food item not found.")]

GET(session, id) ==
  /\ UNCHANGED page
  /\ nreq < MaxRequests
  /\ UNCHANGED <<db, inflight, fileOps>>
  /\ IF Unauthorized(session)
       THEN Respond("GET", session, With(NoBody, "id", id), 401, Error("Unauthorized"))
     ELSE IF id.t # "string"
       THEN \* `if (!id)`: the listing
            \E items \in findMany :
              Respond("GET", session, With(NoBody, "id", id), 200, items)
     ELSE Respond("GET", session, With(NoBody, "id", id),
                  GetOne(id.v).status, GetOne(id.v).json)

-----------------------------------------------------------------------------
(* POST: create                                                            *)

\* The row tx.foodItem.create writes for a body.
CreateData(b) ==
  [name |-> b.name.v,
   expirationDate |-> ParseDate(b.expirationDate.v).time,
   quantity |-> b.quantity.v,
   imageUrl |-> IF Truthy(b.imageUrl) THEN b.imageUrl ELSE Null,
   keywords |-> IF b.keywords.t \in {"undefined", "null"} THEN <<>> ELSE b.keywords.v,
   placement |-> b.placement.v,
   hidden |-> FALSE]

\* categoryNames?.map(...) ?? []
CreateCategoryNames(b) ==
  IF b.categoryNames.t \in {"undefined", "null"} THEN <<>> ELSE b.categoryNames.v

\* Mutant of CreateTx: no transaction around the create, so what was written
\* before the failing call stays.
CreateTx_partial(b) ==
  LET id == issued + 1
      r == createCategories(id, CreateCategoryNames(b), foodCategories, links)
  IN IF ~ParseDate(b.expirationDate.v).ok
       THEN [ok |-> FALSE, items |-> foodItems, cats |-> foodCategories,
             links |-> links, issued |-> issued]
       ELSE [ok |-> r.ok, items |-> Put(foodItems, id, CreateData(b)),
             cats |-> r.cats, links |-> r.links, issued |-> id]

\* prisma.$transaction around tx.foodItem.create: the row, the category rows
\* and the junction rows are written together; when the create throws (an
\* Invalid Date, a repeated link) the transaction rolls back and storage is
\* as before.
CreateTx(b) ==
  LET id == issued + 1
      r == createCategories(id, CreateCategoryNames(b), foodCategories, links)
  IN IF ParseDate(b.expirationDate.v).ok /\ r.ok
       THEN [ok |-> TRUE, items |-> Put(foodItems, id, CreateData(b)),
             cats |-> r.cats, links |-> r.links, issued |-> id]
       ELSE [ok |-> FALSE, items |-> foodItems, cats |-> foodCategories,
             links |-> links, issued |-> issued]

POST(session, body) ==
  /\ UNCHANGED page
  /\ nreq < MaxRequests
  /\ UNCHANGED <<inflight, fileOps>>
  /\ IF Unauthorized(session)
       THEN /\ Respond("POST", session, body, 401, Error("Unauthorized"))
            /\ UNCHANGED db
     ELSE IF ~ParsesAsJson(body)
       THEN \* request.json() throws: the catch block
            /\ Respond("POST", session, body, 500, Error("Internal Server Error"))
            /\ UNCHANGED db
     ELSE IF ~isValidCreateBody(body)
       THEN /\ Respond("POST", session, body, 400, Error("Missing required fields"))
            /\ UNCHANGED db
     ELSE LET r == CreateTx(body)
          IN /\ foodItems' = r.items
             /\ foodCategories' = r.cats
             /\ links' = r.links
             /\ issued' = r.issued
             /\ IF r.ok
                  THEN Respond("POST", session, body, 201,
                               foodItemSelect(r.items, r.cats, r.links, r.issued))
                  ELSE \* the catch block
                       Respond("POST", session, body, 500, Error("Internal Server Error"))

-----------------------------------------------------------------------------
(* PUT: update                                                             *)

\* The patches PUT is tried with: no field, each field alone, the category
\* lists (empty, new, repeated name), and two fields together.
UpdatePatches ==
  { NoBody,
    With(NoBody, "name", Str("Eggs")),
    With(NoBody, "expirationDate", Str("2024-01-05")),
    With(NoBody, "expirationDate", Str("soon")),
    With(NoBody, "quantity", Num(5)),
    With(NoBody, "quantity", Num(0)),
    With(NoBody, "imageUrl", Null),
    With(NoBody, "imageUrl", Str(OtherKeyUrl)),
    With(NoBody, "keywords", Arr(<<"fresh">>)),
    With(NoBody, "placement", Str("Pantry")),
    With(NoBody, "hidden", Bool(TRUE)),
    With(NoBody, "hidden", Bool(FALSE)),
    With(NoBody, "categoryNames", Arr(<<>>)),
    With(NoBody, "categoryNames", Arr(<<"B">>)),
    With(NoBody, "categoryNames", Arr(<<"B", "B">>)),
    With(With(NoBody, "quantity", Num(5)), "categoryNames", Arr(<<"A", "C">>)) }

UpdateBodies ==
  {With(p, "id", Str(id)) : p \in UpdatePatches, id \in RequestIds}
    \cup {NoBody, Null, Unparsable}

\* Mutant of UpdateData: keywords default to [] as in POST (`keywords ?? []`).
UpdateData_keywords(row, b) ==
  [name |-> IF b.name.t # "undefined" THEN b.name.v ELSE row.name,
   expirationDate |-> IF b.expirationDate.t # "undefined"
                        THEN ParseDate(b.expirationDate.v).time
                        ELSE row.expirationDate,
   quantity |-> IF b.quantity.t # "undefined" THEN b.quantity.v ELSE row.quantity,
   imageUrl |-> IF b.imageUrl.t # "undefined" THEN b.imageUrl ELSE row.imageUrl,
   keywords |-> IF b.keywords.t # "undefined" THEN b.keywords.v ELSE <<>>,
   placement |-> IF b.placement.t # "undefined" THEN b.placement.v ELSE row.placement,
   hidden |-> IF b.hidden.t # "undefined" THEN b.hidden.v ELSE row.hidden]

\* updateData applied to a row: `if (f !== undefined) updateData.f = f`.
UpdateData(row, b) ==
  [name |-> IF b.name.t # "undefined" THEN b.name.v ELSE row.name,
   expirationDate |-> IF b.expirationDate.t # "undefined"
                        THEN ParseDate(b.expirationDate.v).time
                        ELSE row.expirationDate,
   quantity |-> IF b.quantity.t # "undefined" THEN b.quantity.v ELSE row.quantity,
   imageUrl |-> IF b.imageUrl.t # "undefined" THEN b.imageUrl ELSE row.imageUrl,
   keywords |-> IF b.keywords.t # "undefined" THEN b.keywords.v ELSE row.keywords,
   placement |-> IF b.placement.t # "undefined" THEN b.placement.v ELSE row.placement,
   hidden |-> IF b.hidden.t # "undefined" THEN b.hidden.v ELSE row.hidden]

\* Mutant of deleteMany: the links of the item are left in place.
deleteMany_none(lnks, id) == lnks

\* tx.foodCategoryOnFoodItem.deleteMany({ where: { foodItemId: id } })
deleteMany(lnks, id) == {l \in lnks : l.foodItemId # id}

\* The transaction of PUT: the links of the item are dropped and created
\* anew when categoryNames is given, then the row is updated.  Not ok when
\* a call throws (no such row: P2025; an Invalid Date; a repeated link).
UpdateTx(b) ==
  LET id == b.id.v
      given == b.categoryNames.t # "undefined"
      kept == IF given THEN deleteMany(links, id) ELSE links
      r == IF given /\ b.categoryNames.t = "array"
             THEN createCategories(id, b.categoryNames.v, foodCategories, kept)
             ELSE [ok |-> ~given, cats |-> foodCategories, links |-> kept]
      dateOk == b.expirationDate.t = "undefined" \/ ParseDate(b.expirationDate.v).ok
  IN IF id \in DOMAIN foodItems /\ dateOk /\ r.ok
       THEN [ok |-> TRUE,
             items |-> [foodItems EXCEPT ![id] = UpdateData(foodItems[id], b)],
             cats |-> r.cats, links |-> r.links]
       ELSE [ok |-> FALSE, items |-> foodItems, cats |-> foodCategories,
             links |-> links]

PUT(session, body) ==
  /\ UNCHANGED page
  /\ nreq < MaxRequests
  /\ UNCHANGED <<inflight, fileOps, issued>>
  /\ IF Unauthorized(session)
       THEN /\ Respond("PUT", session, body, 401, Error("Unauthorized"))
            /\ UNCHANGED <<foodItems, foodCategories, links>>
     ELSE IF ~ParsesAsJson(body)
       THEN \* request.json() throws: the catch block
            /\ Respond("PUT", session, body, 500, Error("Internal Server Error"))
            /\ UNCHANGED <<foodItems, foodCategories, links>>
     ELSE IF ~isValidUpdateBody(body)
       THEN /\ Respond("PUT", session, body, 400, Error("Food item ID is required"))
            /\ UNCHANGED <<foodItems, foodCategories, links>>
     ELSE LET r == UpdateTx(body)
          IN IF r.ok
               THEN /\ foodItems' = r.items
                    /\ foodCategories' = r.cats
                    /\ links' = r.links
                    /\ Respond("PUT", session, body, 200,
                               foodItemSelect(r.items, r.cats, r.links, body.id.v))
               ELSE \* the catch block: every error is a 500
                    /\ Respond("PUT", session, body, 500, Error("Internal Server Error"))
                    /\ UNCHANGED <<foodItems, foodCategories, links>>

-----------------------------------------------------------------------------
(* DELETE: delete, and the deletion of the uploaded image                  *)

DeleteBodies ==
  {With(NoBody, "id", Str(id)) : id \in RequestIds} \cup {NoBody, Null, Unparsable}

\* tx.foodItem.delete: the row goes, and with it its junction rows
\* (onDelete: Cascade).
deleteItem(items, id) == [j \in DOMAIN items \ {id} |-> items[j]]

\* Mutant of cascade: the junction rows of a deleted item stay.
cascade_none(lnks, id) == lnks

cascade(lnks, id) == {l \in lnks : l.foodItemId # id}

\* A handler suspended at an await.
Suspended(rid, pc, session, body, imageUrl) ==
  [rid |-> rid, pc |-> pc, session |-> session, body |-> body,
   imageUrl |-> imageUrl]

\* utapi.deleteFiles([fileKey]) is called: the promise is pending.
FileCall(rid, item, key) ==
  [rid |-> rid, item |-> item, key |-> key, status |-> "pending"]

\* `if (imageUrl) { fileKey = extractFileKeyFromUrl(imageUrl); if (fileKey)`
HasFileKey(imageUrl) ==
  Truthy(imageUrl) /\ Truthy(extractFileKeyFromUrl(imageUrl.v))

\* Mutant of DeleteCatch: every error is answered 500, as in PUT.
DeleteCatch_500(message) == 500

\* Mutant of DeleteCatch: only the error the callback throws is answered
\* 404, Prisma's P2025 is not.
DeleteCatch_message(message) ==
  IF message = "Food item not found" THEN 404 ELSE 500

\* The catch block: the error thrown for an unknown id is answered 404 (so is
\* Prisma's P2025), any other error 500.
DeleteCatch(message) ==
  IF message \in {"Food item not found", "P2025"} THEN 404 ELSE 500

\* The handler up to the end of its transaction: the session and body checks,
\* then findUnique and delete in one transaction.  An unknown id makes the
\* callback throw 'Food item not found', which the catch block answers 404.
DELETE(session, body) ==
  /\ UNCHANGED page
  /\ nreq < MaxRequests
  /\ UNCHANGED <<foodCategories, issued, fileOps>>
  /\ IF Unauthorized(session)
       THEN /\ Respond("DELETE", session, body, 401, Error("Unauthorized"))
            /\ UNCHANGED <<foodItems, links, inflight>>
     ELSE IF ~ParsesAsJson(body)
       THEN \* request.json() throws: the catch block
            /\ Respond("DELETE", session, body, 500, Error("Internal Server Error"))
            /\ UNCHANGED <<foodItems, links, inflight>>
     ELSE IF ~isValidDeleteBody(body)
       THEN /\ Respond("DELETE", session, body, 400, Error("Food item ID is required"))
            /\ UNCHANGED <<foodItems, links, inflight>>
     ELSE IF body.id.v \notin DOMAIN foodItems
       THEN /\ Respond("DELETE", session, body, DeleteCatch("Food item not found"),
                       Error("Food item not found."))
            /\ UNCHANGED <<foodItems, links, inflight>>
     ELSE /\ foodItems' = deleteItem(foodItems, body.id.v)
          /\ links' = cascade(links, body.id.v)
          /\ nreq' = nreq + 1
          /\ inflight' = inflight \cup
               {Suspended(nreq + 1, "committed", session, body,
                          foodItems[body.id.v].imageUrl)}
          /\ UNCHANGED resp

\* Mutant of DELETE_respond: the file deletion is awaited, outside any try.
DELETE_respond_await(r) ==
  /\ UNCHANGED page
  /\ r \in inflight /\ r.pc = "committed"
  /\ UNCHANGED <<db, nreq>>
  /\ IF HasFileKey(r.imageUrl) /\ ~\E f \in fileOps : f.rid = r.rid
       THEN /\ fileOps' = fileOps \cup
                 {[rid |-> r.rid, item |-> r.body.id.v,
                   key |-> extractFileKeyFromUrl(r.imageUrl.v).v,
                   status |-> "pending"]}
            /\ UNCHANGED <<inflight, resp>>
       ELSE /\ \A f \in fileOps : f.rid = r.rid => f.status # "pending"
            /\ inflight' = inflight \ {r}
            /\ fileOps' = fileOps
            /\ resp' = [rid |-> r.rid, op |-> "DELETE", session |-> r.session,
                        body |-> r.body,
                        status |-> IF \E f \in fileOps :
                                        f.rid = r.rid /\ f.status = "failed"
                                     THEN 500 ELSE 200,
                        json |-> [deletedId |-> r.body.id.v]]

\* The handler after its transaction: the file deletion is started and not
\* awaited, and the response is sent.
DELETE_respond(r) ==
  /\ UNCHANGED page
  /\ r \in inflight /\ r.pc = "committed"
  /\ inflight' = inflight \ {r}
  /\ fileOps' = IF HasFileKey(r.imageUrl)
                  THEN fileOps \cup {FileCall(r.rid, r.body.id.v,
                                              extractFileKeyFromUrl(r.imageUrl.v).v)}
                  ELSE fileOps
  /\ Send(r.rid, "DELETE", r.session, r.body, 200, [deletedId |-> r.body.id.v])
  /\ UNCHANGED <<db, nreq>>

\* The storage provider finishes a deletion: the promise resolves, or it
\* rejects.  Nothing makes it do either.
FileDeleted(f) ==
  /\ UNCHANGED page
  /\ f \in fileOps /\ f.status = "pending"
  /\ fileOps' = (fileOps \ {f}) \cup {[f EXCEPT !.status = "deleted"]}
  /\ UNCHANGED <<db, nreq, inflight, resp>>

FileDeleteFailed(f) ==
  /\ UNCHANGED page
  /\ f \in fileOps /\ f.status = "pending"
  /\ fileOps' = (fileOps \ {f}) \cup {[f EXCEPT !.status = "failed"]}
  /\ UNCHANGED <<db, nreq, inflight, resp>>

-----------------------------------------------------------------------------
(* DELETE of the earlier revision (route.ts, lines 260-318)                *)

\* The session and body checks and findUnique.
DELETE_r1(session, body) ==
  /\ UNCHANGED page
  /\ nreq < MaxRequests
  /\ UNCHANGED <<db, fileOps>>
  /\ IF Unauthorized(session)
       THEN /\ Respond("DELETE", session, body, 401, Error("Unauthorized"))
            /\ UNCHANGED inflight
     ELSE IF ~ParsesAsJson(body)
       THEN \* request.json() throws: the catch block
            /\ Respond("DELETE", session, body, 500, Error("Internal Server Error"))
            /\ UNCHANGED inflight
     ELSE IF ~isValidDeleteBody(body)
       THEN /\ Respond("DELETE", session, body, 400, Error("Food item ID is required"))
            /\ UNCHANGED inflight
     ELSE IF body.id.v \notin DOMAIN foodItems
       THEN /\ Respond("DELETE", session, body, 404, Error("Food item not found."))
            /\ UNCHANGED inflight
     ELSE /\ nreq' = nreq + 1
          /\ inflight' = inflight \cup
               {Suspended(nreq + 1, "found", session, body,
                          foodItems[body.id.v].imageUrl)}
          /\ UNCHANGED resp

\* After findUnique: with an image that has a file key, deleteFiles is called
\* and awaited; otherwise the handler goes on to the database delete.
DELETE_r1_file(r) ==
  /\ UNCHANGED page
  /\ r \in inflight /\ r.pc = "found"
  /\ IF HasFileKey(r.imageUrl)
       THEN /\ fileOps' = fileOps \cup
                 {FileCall(r.rid, r.body.id.v, extractFileKeyFromUrl(r.imageUrl.v).v)}
            /\ inflight' = (inflight \ {r}) \cup {[r EXCEPT !.pc = "awaitFile"]}
       ELSE /\ fileOps' = fileOps
            /\ inflight' = (inflight \ {r}) \cup {[r EXCEPT !.pc = "delete"]}
  /\ UNCHANGED <<db, nreq, resp>>

\* `await utapi.deleteFiles` returns or throws into the inner catch: either
\* way the handler goes on.  It stays suspended while the promise is pending.
DELETE_r1_awaited(r) ==
  /\ UNCHANGED page
  /\ r \in inflight /\ r.pc = "awaitFile"
  /\ \E f \in fileOps : f.rid = r.rid /\ f.status # "pending"
  /\ inflight' = (inflight \ {r}) \cup {[r EXCEPT !.pc = "delete"]}
  /\ UNCHANGED <<db, nreq, fileOps, resp>>

\* prisma.foodItem.delete and the response; a row that is gone by now is
\* P2025, which the catch block answers 404.
DELETE_r1_delete(r) ==
  /\ UNCHANGED page
  /\ r \in inflight /\ r.pc = "delete"
  /\ inflight' = inflight \ {r}
  /\ UNCHANGED <<foodCategories, issued, nreq, fileOps>>
  /\ IF r.body.id.v \in DOMAIN foodItems
       THEN /\ foodItems' = deleteItem(foodItems, r.body.id.v)
            /\ links' = cascade(links, r.body.id.v)
            /\ Send(r.rid, "DELETE", r.session, r.body, 200,
                    [deletedId |-> r.body.id.v])
       ELSE /\ UNCHANGED <<foodItems, links>>
            /\ Send(r.rid, "DELETE", r.session, r.body, 404,
                    Error("Food item not found."))

-----------------------------------------------------------------------------
(* GET and PUT of the earlier revision (route.ts, lines 75-137, 196-258)   *)

\* include: { categories: { include: { foodCategory: true } } }: the row
\* with its junction rows, each with its category.
foodItemInclude(items, cats, lnks, id) ==
  [id |-> id,
   name |-> items[id].name,
   expirationDate |-> items[id].expirationDate,
   quantity |-> items[id].quantity,
   imageUrl |-> items[id].imageUrl,
   keywords |-> items[id].keywords,
   placement |-> items[id].placement,
   hidden |-> items[id].hidden,
   categories |-> {[foodItemId |-> id, foodCategoryId |-> c.id, foodCategory |-> c] :
                     c \in {c \in cats :
                              [foodItemId |-> id, foodCategoryId |-> c.id] \in lnks}}]

GET_r1(session, id) ==
  /\ UNCHANGED page
  /\ nreq < MaxRequests
  /\ UNCHANGED <<db, inflight, fileOps>>
  /\ IF Unauthorized(session)
       THEN Respond("GET", session, With(NoBody, "id", id), 401, Error("Unauthorized"))
     ELSE IF id.t # "string"
       THEN \E s \in orderBy(foodItems, Visible(foodItems)) :
              Respond("GET", session, With(NoBody, "id", id), 200,
                      [i \in DOMAIN s |->
                         foodItemInclude(foodItems, foodCategories, links, s[i])])
     ELSE IF id.v \in DOMAIN foodItems
       THEN Respond("GET", session, With(NoBody, "id", id), 200,
                    foodItemInclude(foodItems, foodCategories, links, id.v))
     ELSE Respond("GET", session, With(NoBody, "id", id), 404,
                  Error("Food item not found."))

\* A PUT handler suspended at `await prisma.foodItem.update`, after its
\* deleteMany.  removed records the junction rows that deleteMany deleted.
SuspendedUpdate(rid, session, body, removed) ==
  [rid |-> rid, pc |-> "update", session |-> session, body |-> body,
   removed |-> removed]

\* prisma.foodItem.update with the nested create of the links: one write,
\* not ok when it throws (no such row: P2025; an Invalid Date; a link that
\* exists already).
update_r1(b) ==
  LET id == b.id.v
      given == b.categoryNames.t # "undefined"
      r == IF given /\ b.categoryNames.t = "array"
             THEN createCategories(id, b.categoryNames.v, foodCategories, links)
             ELSE [ok |-> ~given, cats |-> foodCategories, links |-> links]
      dateOk == b.expirationDate.t = "undefined" \/ ParseDate(b.expirationDate.v).ok
  IN IF id \in DOMAIN foodItems /\ dateOk /\ r.ok
       THEN [ok |-> TRUE,
             items |-> [foodItems EXCEPT ![id] = UpdateData(foodItems[id], b)],
             cats |-> r.cats, links |-> r.links]
       ELSE [ok |-> FALSE, items |-> foodItems, cats |-> foodCategories,
             links |-> links]

\* The update and the response of PUT.
PutUpdate_r1(rid, session, body) ==
  LET r == update_r1(body)
  IN IF r.ok
       THEN /\ foodItems' = r.items
            /\ foodCategories' = r.cats
            /\ links' = r.links
            /\ Send(rid, "PUT", session, body, 200,
                    foodItemInclude(r.items, r.cats, r.links, body.id.v))
       ELSE /\ Send(rid, "PUT", session, body, 500, Error("Internal Server Error"))
            /\ UNCHANGED <<foodItems, foodCategories, links>>

\* The session and body checks; with categoryNames, deleteMany, which is
\* committed when it returns, and the handler waits for the update; without,
\* the update at once.
PUT_r1(session, body) ==
  /\ UNCHANGED page
  /\ nreq < MaxRequests
  /\ UNCHANGED <<fileOps, issued>>
  /\ IF Unauthorized(session)
       THEN /\ Respond("PUT", session, body, 401, Error("Unauthorized"))
            /\ UNCHANGED <<foodItems, foodCategories, links, inflight>>
     ELSE IF ~ParsesAsJson(body)
       THEN /\ Respond("PUT", session, body, 500, Error("Internal Server Error"))
            /\ UNCHANGED <<foodItems, foodCategories, links, inflight>>
     ELSE IF ~isValidUpdateBody(body)
       THEN /\ Respond("PUT", session, body, 400, Error("Food item ID is required"))
            /\ UNCHANGED <<foodItems, foodCategories, links, inflight>>
     ELSE IF body.categoryNames.t # "undefined"
       THEN /\ links' = deleteMany(links, body.id.v)
            /\ nreq' = nreq + 1
            /\ inflight' = inflight \cup
                 {SuspendedUpdate(nreq + 1, session, body, links \ links')}
            /\ UNCHANGED <<foodItems, foodCategories, resp>>
     ELSE /\ nreq' = nreq + 1
          /\ PutUpdate_r1(nreq + 1, session, body)
          /\ UNCHANGED inflight

PUT_r1_update(r) ==
  /\ UNCHANGED page
  /\ r \in inflight /\ r.pc = "update"
  /\ inflight' = inflight \ {r}
  /\ PutUpdate_r1(r.rid, r.session, r.body)
  /\ UNCHANGED <<issued, nreq, fileOps>>

-----------------------------------------------------------------------------
(* POST and PUT with their transactions running next to others (route.ts,  *)
(* 498-520, 555-580).  The datasource is postgresql and $transaction is    *)
(* called without an isolation level: the statements run under READ        *)
(* COMMITTED.                                                              *)

\* A handler inside its transaction.  target: the junction rows its
\* deleteMany statement found when it started and that no committed
\* transaction has deleted since; deleted: the rows it has deleted, which
\* it holds locked until it ends; missing: the category names for which
\* the lookup of connectOrCreate found no row.
OpenTx(rid, pc, session, body, target) ==
  [rid |-> rid, pc |-> pc, session |-> session, body |-> body,
   target |-> target, deleted |-> {}, missing |-> {}]

\* connectOrCreate's lookups for a list of names: the names with no
\* committed row.
Missing(names) ==
  {n \in Range(names) : ~\E c \in foodCategories : c.name = n}

\* connectOrCreate's inserts: a name that the lookup did not find and that
\* another transaction has committed since violates the unique name
\* (P2002).
NameTaken(r) == \E n \in r.missing : \E c \in foodCategories : c.name = n

\* The bodies the concurrent POST requests are tried with.
ConcurrentCreateBodies ==
  { Milk,
    With(Milk, "categoryNames", Arr(<<"A">>)),
    With(Milk, "categoryNames", Arr(<<"B">>)),
    With(Milk, "name", Undef),
    Null }

\* The session and body checks and the start of the transaction.
POST_c(session, body) ==
  /\ UNCHANGED page
  /\ nreq < MaxRequests
  /\ UNCHANGED <<db, fileOps>>
  /\ IF Unauthorized(session)
       THEN /\ Respond("POST", session, body, 401, Error("Unauthorized"))
            /\ UNCHANGED inflight
     ELSE IF ~ParsesAsJson(body)
       THEN /\ Respond("POST", session, body, 500, Error("Internal Server Error"))
            /\ UNCHANGED inflight
     ELSE IF ~isValidCreateBody(body)
       THEN /\ Respond("POST", session, body, 400, Error("Missing required fields"))
            /\ UNCHANGED inflight
     ELSE /\ nreq' = nreq + 1
          /\ inflight' = inflight \cup {OpenTx(nreq + 1, "tx_find", session, body, {})}
          /\ UNCHANGED resp

\* The lookups of connectOrCreate in the nested create of POST.
POST_c_lookup(r) ==
  /\ UNCHANGED page
  /\ r \in inflight /\ r.pc = "tx_find"
  /\ inflight' = (inflight \ {r}) \cup
       {[r EXCEPT !.pc = "tx_create", !.missing = Missing(CreateCategoryNames(r.body))]}
  /\ UNCHANGED <<db, nreq, fileOps, resp>>

\* The inserts of tx.foodItem.create, the commit and the response; when a
\* call throws, the rollback and the catch block.
POST_c_create(r) ==
  /\ UNCHANGED page
  /\ r \in inflight /\ r.pc = "tx_create"
  /\ inflight' = inflight \ {r}
  /\ UNCHANGED <<nreq, fileOps>>
  /\ LET c == CreateTx(r.body)
     IN IF ~NameTaken(r) /\ c.ok
          THEN /\ foodItems' = c.items
               /\ foodCategories' = c.cats
               /\ links' = c.links
               /\ issued' = c.issued
               /\ Send(r.rid, "POST", r.session, r.body, 201,
                       foodItemSelect(c.items, c.cats, c.links, c.issued))
          ELSE /\ UNCHANGED db
               /\ Send(r.rid, "POST", r.session, r.body, 500,
                       Error("Internal Server Error"))

\* The bodies the concurrent PUT requests are tried with: the patches with
\* a category list, one without, and the bodies that are refused.
ConcurrentBodies ==
  {b \in UpdateBodies :
     IsObject(b) => b.categoryNames.t = "array" \/ b = With(NoBody, "id", b.id)}

\* The session and body checks, the start of the transaction and, with
\* categoryNames, the start of deleteMany, which sees the committed rows.
PUT_c(session, body) ==
  /\ UNCHANGED page
  /\ nreq < MaxRequests
  /\ UNCHANGED <<db, fileOps>>
  /\ IF Unauthorized(session)
       THEN /\ Respond("PUT", session, body, 401, Error("Unauthorized"))
            /\ UNCHANGED inflight
     ELSE IF ~ParsesAsJson(body)
       THEN /\ Respond("PUT", session, body, 500, Error("Internal Server Error"))
            /\ UNCHANGED inflight
     ELSE IF ~isValidUpdateBody(body)
       THEN /\ Respond("PUT", session, body, 400, Error("Food item ID is required"))
            /\ UNCHANGED inflight
     ELSE /\ nreq' = nreq + 1
          /\ inflight' = inflight \cup
               {IF body.categoryNames.t # "undefined"
                  THEN OpenTx(nreq + 1, "tx_deleteMany", session, body,
                              links \ deleteMany(links, body.id.v))
                  ELSE OpenTx(nreq + 1, "tx_update", session, body, {})}
          /\ UNCHANGED resp

\* deleteMany deletes the rows it found.  It waits while another open
\* transaction holds one of them deleted; rows that a transaction committed
\* after the statement started are not among them.
PUT_c_deleteMany(r) ==
  /\ UNCHANGED page
  /\ r \in inflight /\ r.pc = "tx_deleteMany"
  /\ \A o \in inflight \ {r} : o.deleted \cap r.target = {}
  /\ inflight' = (inflight \ {r}) \cup
       {[r EXCEPT !.pc = "tx_lookup", !.deleted = r.target]}
  /\ UNCHANGED <<db, nreq, fileOps, resp>>

\* The lookups of connectOrCreate in the nested create of PUT.
PUT_c_lookup(r) ==
  /\ UNCHANGED page
  /\ r \in inflight /\ r.pc = "tx_lookup"
  /\ inflight' = (inflight \ {r}) \cup
       {[r EXCEPT !.pc = "tx_update",
                  !.missing = IF r.body.categoryNames.t = "array"
                                THEN Missing(r.body.categoryNames.v) ELSE {}]}
  /\ UNCHANGED <<db, nreq, fileOps, resp>>

\* tx.foodItem.update with the nested create of the links, the commit and
\* the response; when a call throws, the rollback and the catch block.  A
\* commit takes the rows it deleted out of what the others still look for.
PUT_c_update(r) ==
  /\ UNCHANGED page
  /\ r \in inflight /\ r.pc = "tx_update"
  /\ UNCHANGED <<issued, nreq, fileOps>>
  /\ LET id == r.body.id.v
         given == r.body.categoryNames.t # "undefined"
         kept == links \ r.deleted
         c == IF given /\ r.body.categoryNames.t = "array"
                THEN createCategories(id, r.body.categoryNames.v, foodCategories, kept)
                ELSE [ok |-> ~given, cats |-> foodCategories, links |-> kept]
         dateOk == \/ r.body.expirationDate.t = "undefined"
                   \/ ParseDate(r.body.expirationDate.v).ok
     IN IF id \in DOMAIN foodItems /\ dateOk /\ ~NameTaken(r) /\ c.ok
          THEN /\ foodItems' = [foodItems EXCEPT ![id] = UpdateData(foodItems[id], r.body)]
               /\ foodCategories' = c.cats
               /\ links' = c.links
               /\ inflight' = {[o EXCEPT !.target = @ \ r.deleted] : o \in inflight \ {r}}
               /\ Send(r.rid, "PUT", r.session, r.body, 200,
                       foodItemSelect(foodItems', c.cats, c.links, id))
          ELSE /\ UNCHANGED <<foodItems, foodCategories, links>>
               /\ inflight' = inflight \ {r}
               /\ Send(r.rid, "PUT", r.session, r.body, 500,
                       Error("Internal Server Error"))

-----------------------------------------------------------------------------
(* DELETE with its transaction running next to others (route.ts, 604-650)  *)

\* The session and body checks, the start of the transaction and
\* findUnique, which sees the committed rows.
DELETE_c(session, body) ==
  /\ UNCHANGED page
  /\ nreq < MaxRequests
  /\ UNCHANGED <<db, fileOps>>
  /\ IF Unauthorized(session)
       THEN /\ Respond("DELETE", session, body, 401, Error("Unauthorized"))
            /\ UNCHANGED inflight
     ELSE IF ~ParsesAsJson(body)
       THEN /\ Respond("DELETE", session, body, 500, Error("Internal Server Error"))
            /\ UNCHANGED inflight
     ELSE IF ~isValidDeleteBody(body)
       THEN /\ Respond("DELETE", session, body, 400, Error("Food item ID is required"))
            /\ UNCHANGED inflight
     ELSE IF body.id.v \notin DOMAIN foodItems
       THEN /\ Respond("DELETE", session, body, DeleteCatch("Food item not found"),
                       Error("Food item not found."))
            /\ UNCHANGED inflight
     ELSE /\ nreq' = nreq + 1
          /\ inflight' = inflight \cup
               {Suspended(nreq + 1, "tx_delete", session, body,
                          foodItems[body.id.v].imageUrl)}
          /\ UNCHANGED resp

\* tx.foodItem.delete and the commit; a row that another transaction has
\* deleted since findUnique is P2025, which goes to the catch block.
DELETE_c_delete(r) ==
  /\ UNCHANGED page
  /\ r \in inflight /\ r.pc = "tx_delete"
  /\ UNCHANGED <<foodCategories, issued, nreq, fileOps>>
  /\ IF r.body.id.v \in DOMAIN foodItems
       THEN /\ foodItems' = deleteItem(foodItems, r.body.id.v)
            /\ links' = cascade(links, r.body.id.v)
            /\ inflight' = (inflight \ {r}) \cup {[r EXCEPT !.pc = "committed"]}
            /\ UNCHANGED resp
       ELSE /\ UNCHANGED <<foodItems, links>>
            /\ inflight' = inflight \ {r}
            /\ Send(r.rid, "DELETE", r.session, r.body, DeleteCatch("P2025"),
                    IF DeleteCatch("P2025") = 404
                      THEN Error("Food item not found.")
                      ELSE Error("Internal Server Error"))

-----------------------------------------------------------------------------
(* The timestamps of FoodItem (schema.prisma, lines 23-24)                 *)

\* The readings of the clock, in milliseconds.
MaxTime == 3
Times == 1..MaxTime

\* The latest updatedAt stored.  The clock does not run backwards: a write
\* reads a time that is not earlier; it is the same when the clock has not
\* advanced since.
LatestUpdate ==
  IF DOMAIN foodItems = {} THEN 0
  ELSE CHOOSE t \in {foodItems[i].updatedAt : i \in DOMAIN foodItems} :
         \A i \in DOMAIN foodItems : foodItems[i].updatedAt <= t

\* A row with its timestamps.
Stamped(row, created, updated) ==
  [k \in DOMAIN row \cup {"createdAt", "updatedAt"} |->
     CASE k = "createdAt" -> created
       [] k = "updatedAt" -> updated
       [] OTHER -> row[k]]

\* @updatedAt: an update sets updatedAt to the time of the write; createdAt
\* is not among the fields PUT writes.
Touch(row, old, now) == Stamped(row, old.createdAt, now)

\* The bodies the requests are tried with where the timestamps are kept.
TimedCreateBodies == {Milk, Eggs, With(Milk, "name", Undef)}
TimedUpdateBodies ==
  {With(p, "id", Str(id)) :
     p \in {NoBody, With(NoBody, "name", Str("Eggs")),
            With(NoBody, "expirationDate", Str("soon")),
            With(NoBody, "categoryNames", Arr(<<"B">>))},
     id \in RequestIds}

\* POST at time now: createdAt @default(now()), updatedAt @updatedAt.
POST_t(session, body, now) ==
  /\ UNCHANGED page
  /\ nreq < MaxRequests /\ now >= LatestUpdate
  /\ UNCHANGED <<inflight, fileOps>>
  /\ IF Unauthorized(session)
       THEN /\ Respond("POST", session, body, 401, Error("Unauthorized"))
            /\ UNCHANGED db
     ELSE IF ~isValidCreateBody(body)
       THEN /\ Respond("POST", session, body, 400, Error("Missing required fields"))
            /\ UNCHANGED db
     ELSE LET r == CreateTx(body)
          IN IF r.ok
               THEN /\ foodItems' = Put(foodItems, r.issued,
                                       Stamped(r.items[r.issued], now, now))
                    /\ foodCategories' = r.cats
                    /\ links' = r.links
                    /\ issued' = r.issued
                    /\ Respond("POST", session, body, 201,
                               foodItemSelect(r.items, r.cats, r.links, r.issued))
               ELSE /\ Respond("POST", session, body, 500, Error("Internal Server Error"))
                    /\ UNCHANGED db

\* PUT at time now.
PUT_t(session, body, now) ==
  /\ UNCHANGED page
  /\ nreq < MaxRequests /\ now >= LatestUpdate
  /\ UNCHANGED <<inflight, fileOps, issued>>
  /\ IF Unauthorized(session)
       THEN /\ Respond("PUT", session, body, 401, Error("Unauthorized"))
            /\ UNCHANGED <<foodItems, foodCategories, links>>
     ELSE IF ~isValidUpdateBody(body)
       THEN /\ Respond("PUT", session, body, 400, Error("Food item ID is required"))
            /\ UNCHANGED <<foodItems, foodCategories, links>>
     ELSE LET r == UpdateTx(body)
          IN IF r.ok
               THEN /\ foodItems' = [foodItems EXCEPT ![body.id.v] =
                                       Touch(r.items[body.id.v], foodItems[body.id.v], now)]
                    /\ foodCategories' = r.cats
                    /\ links' = r.links
                    /\ Respond("PUT", session, body, 200,
                               foodItemSelect(r.items, r.cats, r.links, body.id.v))
               ELSE /\ Respond("PUT", session, body, 500, Error("Internal Server Error"))
                    /\ UNCHANGED <<foodItems, foodCategories, links>>

-----------------------------------------------------------------------------
(* The listing page (page.tsx): search and sort                            *)

\* Strings of the page are sequences of the characters " ", "a", "A", "b",
\* "B".
lower(c) == CASE c = "A" -> "a" [] c = "B" -> "b" [] OTHER -> c

\* String.prototype.toLowerCase
toLowerCase(str) == [i \in DOMAIN str |-> lower(str[i])]

\* String.prototype.trim: the string without the spaces at its ends.
RECURSIVE trimStart(_)
trimStart(str) ==
  IF str # <<>> /\ Head(str) = " " THEN trimStart(Tail(str)) ELSE str

RECURSIVE trimEnd(_)
trimEnd(str) ==
  IF str # <<>> /\ str[Len(str)] = " "
    THEN trimEnd(SubSeq(str, 1, Len(str) - 1)) ELSE str

trimString(str) == trimEnd(trimStart(str))

\* String.prototype.includes
includes(str, sub) ==
  \E i \in 0..(Len(str) - Len(sub)) : SubSeq(str, i + 1, i + Len(sub)) = sub

\* The order of two sequences of numbers, as a negative number, 0 or a
\* positive one.
RECURSIVE LexCompare(_, _)
LexCompare(x, y) ==
  CASE x = <<>> /\ y = <<>> -> 0
    [] x = <<>> /\ y # <<>> -> -1
    [] x # <<>> /\ y = <<>> -> 1
    [] OTHER -> IF Head(x) # Head(y) THEN Head(x) - Head(y)
                ELSE LexCompare(Tail(x), Tail(y))

\* String.prototype.localeCompare: by the letters whatever their case, a
\* space before every letter; strings of the same letters by case, lower
\* case first.
localeCompare(x, y) ==
  LET letter(c) == CASE lower(c) = " " -> 0 [] lower(c) = "a" -> 1 [] OTHER -> 2
      case(c) == IF lower(c) = c THEN 0 ELSE 1
      byLetter == LexCompare([i \in DOMAIN x |-> letter(x[i])],
                             [i \in DOMAIN y |-> letter(y[i])])
  IN IF byLetter # 0 THEN byLetter
     ELSE LexCompare([i \in DOMAIN x |-> case(x[i])],
                     [i \in DOMAIN y |-> case(y[i])])

SortOrders == {"name-asc", "quantity-desc", "quantity-asc", "date-new-to-old"}

\* The comparators sortFoodItems passes to sort.
compare(order, a, b) ==
  CASE order = "name-asc" -> localeCompare(a.name, b.name)
    [] order = "quantity-desc" -> b.quantity - a.quantity
    [] order = "quantity-asc" -> a.quantity - b.quantity
    [] order = "date-new-to-old" ->
         ParseDate(a.expirationDate).time - ParseDate(b.expirationDate).time

\* Mutant of Insert: an item goes before the items it compares equal to.
RECURSIVE Insert_before(_, _, _)
Insert_before(x, sorted, order) ==
  IF sorted = <<>> THEN <<x>>
  ELSE IF compare(order, x, Head(sorted)) <= 0 THEN <<x>> \o sorted
  ELSE <<Head(sorted)>> \o Insert_before(x, Tail(sorted), order)

\* Array.prototype.sort is stable: an item goes behind the items that are
\* not to come after it.
RECURSIVE Insert(_, _, _)
Insert(x, sorted, order) ==
  IF sorted = <<>> THEN <<x>>
  ELSE IF compare(order, x, Head(sorted)) < 0 THEN <<x>> \o sorted
  ELSE <<Head(sorted)>> \o Insert(x, Tail(sorted), order)

RECURSIVE sort(_, _, _)
sort(sorted, items, order) ==
  IF items = <<>> THEN sorted
  ELSE sort(Insert(Head(items), sorted, order), Tail(items), order)

\* sortFoodItems: a sorted copy; the items as they are for another order.
sortFoodItems(items, order) ==
  IF order \in SortOrders THEN sort(<<>>, items, order) ELSE items

\* Mutant of Matches: only the name is searched.
Matches_name(item, searchLower) == includes(toLowerCase(item.name), searchLower)

\* The callback of foodItems.filter.
Matches(item, searchLower) ==
  \/ includes(toLowerCase(item.name), searchLower)
  \/ \E k \in Range(item.keywords) : includes(toLowerCase(k), searchLower)
  \/ includes(toLowerCase(item.placement), searchLower)
  \/ \E c \in Range(item.categories) :
       includes(toLowerCase(c.foodCategory.name), searchLower)

\* The value of the memo filteredAndSortedFoodItems.
filteredAndSortedFoodItems(items, searchTerm, sortOrder) ==
  IF Len(items) = 0 THEN <<>>
  ELSE LET searchLower == trimString(toLowerCase(searchTerm))
           filtered == IF trimString(searchTerm) # <<>>
                         THEN SelectSeq(items, LAMBDA item : Matches(item, searchLower))
                         ELSE items
       IN sortFoodItems(filtered, sortOrder)

-----------------------------------------------------------------------------
(* The listing page (page.tsx): the fetched snapshot and the steps         *)

\* The items the listing is answered with: FoodItemData.  Two have the same
\* name, two the same quantity and the same expiration date, one is hidden.
PageItem(id, name, quantity, date, placement, keywords, cats, hidden) ==
  [id |-> id, name |-> name, quantity |-> quantity, expirationDate |-> date,
   placement |-> placement, keywords |-> keywords,
   categories |-> [i \in DOMAIN cats |-> [foodCategory |-> [name |-> cats[i]]]],
   hidden |-> hidden]

PageItems ==
  {PageItem(1, <<"A", "a">>, 2, "2024-01-10T00:00:00.000Z", <<"b">>, <<>>, <<>>, FALSE),
   PageItem(2, <<"a">>, 5, "2024-01-05T00:00:00.000Z", <<"A">>, << <<"B">> >>, <<>>, FALSE),
   PageItem(3, <<"a">>, 2, "2024-01-10T00:00:00.000Z", <<" ">>, <<>>, << <<"a", " ", "a">> >>, FALSE),
   PageItem(4, <<"b">>, 1, "2024-01-05T00:00:00.000Z", <<"a">>, <<>>, <<>>, TRUE)}

\* The listings tried: the items in any order, each at most once.
MaxListed == 3
Snapshots ==
  {data \in UNION {[1..n -> PageItems] : n \in 0..MaxListed} :
     \A i, j \in DOMAIN data : i # j => data[i].id # data[j].id}

\* What is typed into the search box.
SearchTerms ==
  {<<>>, <<" ">>, <<"a">>, <<"A">>, <<"b">>, <<"a", " ">>, <<" ", "B">>, <<"a", " ", "a">>}

\* fetchFoodItems starts: when the page has mounted, and again when "Try
\* Again" is clicked, which is shown while there is an error.  A timer left
\* over from an earlier call aborts a request that has ended, which does
\* nothing; only the new timer is kept.
fetchFoodItems ==
  /\ UNCHANGED server
  /\ page.pc = "mount" \/ (page.pc = "idle" /\ page.error # "null")
  /\ page' = [page EXCEPT !.loading = TRUE, !.error = "null",
                          !.timer = "armed", !.pc = "fetch"]

\* The message of the error thrown for a response that is not ok.
NotOkMessage(status) ==
  CASE status = 401 -> "Failed to fetch food items: 401"
    [] status = 500 -> "Failed to fetch food items: 500"

\* fetch resolves with the status line and the headers of the response:
\* the timer is cleared; a status that is not ok ends the call.
FetchResolved(status) ==
  /\ UNCHANGED server
  /\ page.pc = "fetch"
  /\ IF status = 200
       THEN page' = [page EXCEPT !.timer = "off", !.pc = "json"]
       ELSE page' = [page EXCEPT !.timer = "off", !.pc = "idle",
                                 !.error = NotOkMessage(status), !.loading = FALSE]

\* fetch rejects: the network failed.  The timer is not cleared.
FetchRejected ==
  /\ UNCHANGED server
  /\ page.pc = "fetch"
  /\ page' = [page EXCEPT !.pc = "idle", !.error = "Failed to fetch",
                          !.loading = FALSE]

\* response.json() resolves: the items that are not hidden are kept.
BodyRead(data) ==
  /\ UNCHANGED server
  /\ page.pc = "json"
  /\ LET visibleItems == SelectSeq(data, LAMBDA item : ~item.hidden)
     IN page' = [page EXCEPT
                   !.foodItems = visibleItems, !.pc = "idle", !.loading = FALSE,
                   !.shown = filteredAndSortedFoodItems(visibleItems, page.searchTerm,
                                                       page.sortOrder)]

\* response.json() rejects: the body is cut short or is not JSON.
BodyRejected ==
  /\ UNCHANGED server
  /\ page.pc = "json"
  /\ page' = [page EXCEPT !.pc = "idle", !.error = "Unexpected end of JSON input",
                          !.loading = FALSE]

\* The timer fires: controller.abort().  A fetch that has not resolved
\* rejects with an AbortError; a call that has ended is not affected.
Timeout ==
  /\ UNCHANGED server
  /\ page.timer = "armed"
  /\ IF page.pc = "fetch"
       THEN page' = [page EXCEPT !.timer = "off", !.pc = "idle", !.loading = FALSE,
                       !.error = "Request timed out. Please check your connection."]
       ELSE page' = [page EXCEPT !.timer = "off"]

\* The search box changes.
setSearchTerm(term) ==
  /\ UNCHANGED server
  /\ term # page.searchTerm
  /\ page' = [page EXCEPT
                !.searchTerm = term,
                !.shown = filteredAndSortedFoodItems(page.foodItems, term, page.sortOrder)]

\* An entry of the sort menu is chosen.
setSortOrder(order) ==
  /\ UNCHANGED server
  /\ order # page.sortOrder
  /\ page' = [page EXCEPT
                !.sortOrder = order,
                !.shown = filteredAndSortedFoodItems(page.foodItems, page.searchTerm, order)]

-----------------------------------------------------------------------------
(* Specifications                                                          *)

\* The current revision of the handlers.
Next ==
  \/ \E session \in BOOLEAN, id \in Queries : GET(session, id)
  \/ \E session \in BOOLEAN, body \in CreateBodies : POST(session, body)
  \/ \E session \in BOOLEAN, body \in UpdateBodies : PUT(session, body)
  \/ \E session \in BOOLEAN, body \in DeleteBodies : DELETE(session, body)
  \/ \E r \in inflight : DELETE_respond(r)
  \/ \E f \in fileOps : FileDeleted(f)
  \/ \E f \in fileOps : FileDeleteFailed(f)

Spec == Init /\ [][Next]_vars

\* The earlier revision's GET, PUT and DELETE, over items that POST created.
NextRev1 ==
  \/ \E session \in BOOLEAN, id \in Queries : GET_r1(session, id)
  \/ \E session \in BOOLEAN, body \in CreateBodies : POST(session, body)
  \/ \E session \in BOOLEAN, body \in UpdateBodies : PUT_r1(session, body)
  \/ \E r \in inflight : PUT_r1_update(r)
  \/ \E session \in BOOLEAN, body \in DeleteBodies : DELETE_r1(session, body)
  \/ \E r \in inflight : DELETE_r1_file(r)
  \/ \E r \in inflight : DELETE_r1_awaited(r)
  \/ \E r \in inflight : DELETE_r1_delete(r)
  \/ \E f \in fileOps : FileDeleted(f)
  \/ \E f \in fileOps : FileDeleteFailed(f)

SpecRev1 == Init /\ [][NextRev1]_vars

\* The current revision's POST and PUT, the transactions of several
\* requests open at a time.
NextConc ==
  \/ \E session \in BOOLEAN, body \in ConcurrentCreateBodies : POST_c(session, body)
  \/ \E r \in inflight : POST_c_lookup(r)
  \/ \E r \in inflight : POST_c_create(r)
  \/ \E session \in BOOLEAN, body \in ConcurrentBodies : PUT_c(session, body)
  \/ \E r \in inflight : PUT_c_deleteMany(r)
  \/ \E r \in inflight : PUT_c_lookup(r)
  \/ \E r \in inflight : PUT_c_update(r)

SpecConc == Init /\ [][NextConc]_vars

\* The current revision's DELETE, the transactions of several requests open
\* at a time, over items that POST created.
NextConcDelete ==
  \/ \E session \in BOOLEAN, body \in CreateBodies : POST(session, body)
  \/ \E session \in BOOLEAN, body \in DeleteBodies : DELETE_c(session, body)
  \/ \E r \in inflight : DELETE_c_delete(r)
  \/ \E r \in inflight : DELETE_respond(r)
  \/ \E f \in fileOps : FileDeleted(f)
  \/ \E f \in fileOps : FileDeleteFailed(f)

SpecConcDelete == Init /\ [][NextConcDelete]_vars

\* POST and PUT of the current revision, with the timestamps of the rows.
NextTime ==
  \/ \E session \in BOOLEAN, body \in TimedCreateBodies, now \in Times :
       POST_t(session, body, now)
  \/ \E session \in BOOLEAN, body \in TimedUpdateBodies, now \in Times :
       PUT_t(session, body, now)

SpecTime == Init /\ [][NextTime]_vars

\* The current revision, with the event loop running the continuation of a
\* DELETE whose transaction has resolved.  Nothing obliges the storage
\* provider to finish a file deletion.
SpecFair == Spec /\ WF_vars(\E r \in inflight : DELETE_respond(r))

\* The listing page.
NextPage ==
  \/ fetchFoodItems
  \/ \E status \in {200, 401, 500} : FetchResolved(status)
  \/ FetchRejected
  \/ \E data \in Snapshots : BodyRead(data)
  \/ BodyRejected
  \/ Timeout
  \/ \E term \in SearchTerms : setSearchTerm(term)
  \/ \E order \in SortOrders : setSortOrder(order)

SpecPage == Init /\ [][NextPage]_vars

\* The page's own work is done in time: the call scheduled at mount with
\* setTimeout(fetchFoodItems, 0) runs, and the armed timer fires unless it
\* is cleared.  Nothing is assumed of the server and the network.
SpecPageFair ==
  /\ SpecPage
  /\ WF_vars(fetchFoodItems /\ page.pc = "mount")
  /\ WF_vars(Timeout)


-----------------------------------------------------------------------------
(* Steps                                                                   *)

\* This step sends the response of an op request.
Answered(op) == resp'.rid # resp.rid /\ resp'.op = op

\* This step accepts a request and answers it at once.
Handled(op) == Answered(op) /\ nreq' # nreq

\* The names of the categories item id is linked to.
CategoryNamesOf(cats, lnks, id) ==
  {c.name : c \in {c \in cats :
     [foodItemId |-> id, foodCategoryId |-> c.id] \in lnks}}

LinksOf(lnks, id) == {l \in lnks : l.foodItemId = id}

ScalarFields ==
  {"name", "expirationDate", "quantity", "imageUrl", "keywords", "placement",
   "hidden"}

-----------------------------------------------------------------------------
(* Claims                                                                  *)

\* A create payload of the required shape whose date parses.
ValidCreatePayload(b) ==
  isValidCreateBody(b) /\ ParseDate(b.expirationDate.v).ok

\* C1: every POST with a session and a valid create payload is answered 201
\* with an item whose fields are the input's (the same instant for the date,
\* null for no image reference, [] for no keywords), whose id is new and is
\* no other item's, and whose category names are exactly the names of
\* categoryNames with repetitions dropped ({} when it is absent).
C1_CreateReturnsInput ==
  [][Handled("POST") /\ resp'.session /\ ValidCreatePayload(resp'.body) =>
       LET b == resp'.body
           item == resp'.json
       IN /\ resp'.status = 201
          /\ item.name = b.name.v
          /\ item.expirationDate = ParseDate(b.expirationDate.v).time
          /\ item.quantity = b.quantity.v
          /\ item.placement = b.placement.v
          /\ item.imageUrl = (IF Truthy(b.imageUrl) THEN b.imageUrl ELSE Null)
          /\ item.keywords = (IF b.keywords.t = "array" THEN b.keywords.v ELSE <<>>)
          /\ item.id \notin DOMAIN foodItems
          /\ item.id \in DOMAIN foodItems'
          /\ {c.name : c \in item.categories} =
               (IF b.categoryNames.t = "array" THEN Range(b.categoryNames.v) ELSE {})
          /\ CategoryNamesOf(foodCategories', links', item.id) =
               {c.name : c \in item.categories}]_vars

\* C2: there is at most one FoodCategory row per name in every state; a
\* create or update that succeeds keeps every row there was, adds exactly one
\* row for each name it references that had none, and adds no other row.
C2_OneRowPerName ==
  [][/\ \A c1, c2 \in foodCategories' : c1.name = c2.name => c1 = c2
     /\ foodCategories \subseteq foodCategories'
     /\ (Handled("POST") \/ Handled("PUT")) /\ resp'.status \in {200, 201} =>
          LET b == resp'.body
              names == IF b.categoryNames.t = "array"
                         THEN Range(b.categoryNames.v) ELSE {}
              had == {c.name : c \in foodCategories}
              new == foodCategories' \ foodCategories
          IN /\ {c.name : c \in new} = names \ had
             /\ Cardinality(new) = Cardinality(names \ had)]_vars

\* C2 witness: two items are linked to one category row, the only row of its
\* name.
C2_Witness ==
  \E c \in foodCategories : \E i, j \in DOMAIN foodItems :
    /\ i # j
    /\ [foodItemId |-> i, foodCategoryId |-> c.id] \in links
    /\ [foodItemId |-> j, foodCategoryId |-> c.id] \in links
    /\ \A d \in foodCategories : d.name = c.name => d = c

\* C3: a PUT answered 200 leaves every field of the item that its body does
\* not carry as it was, leaves the item's links as they were when the body
\* carries no categoryNames, and leaves every other item and its links alone.
C3_SparsePatch ==
  [][Handled("PUT") /\ resp'.status = 200 =>
       LET b == resp'.body
           id == b.id.v
       IN /\ id \in DOMAIN foodItems
          /\ DOMAIN foodItems' = DOMAIN foodItems
          /\ \A f \in ScalarFields :
               b[f].t = "undefined" => foodItems'[id][f] = foodItems[id][f]
          /\ b.categoryNames.t = "undefined" => LinksOf(links', id) = LinksOf(links, id)
          /\ \A j \in DOMAIN foodItems \ {id} :
               /\ foodItems'[j] = foodItems[j]
               /\ LinksOf(links', j) = LinksOf(links, j)]_vars

\* C3 witness: PUT {id, quantity: 5} was answered 200 for an item that has
\* links; its quantity is 5, its name and placement are those it was created
\* with and it still has links.
C3_Witness ==
  /\ resp.op = "PUT" /\ resp.status = 200
  /\ resp.body = With(With(NoBody, "quantity", Num(5)), "id", resp.body.id)
  /\ resp.body.id.v \in DOMAIN foodItems
  /\ LET row == foodItems[resp.body.id.v]
     IN /\ row.quantity = 5
        /\ row.name = "Milk"
        /\ row.placement = "Fridge"
        /\ LinksOf(links, resp.body.id.v) # {}

\* C4: after a PUT answered 200 whose body carries categoryNames, the names
\* of the categories the item is linked to, in storage and in the response,
\* are exactly the names of the list: none when the list is empty, and no
\* name it was linked to before unless the list has it.
C4_LinksReplaced ==
  [][Handled("PUT") /\ resp'.status = 200 /\ resp'.body.categoryNames.t # "undefined" =>
       LET b == resp'.body
           id == b.id.v
       IN /\ b.categoryNames.t = "array"
          /\ CategoryNamesOf(foodCategories', links', id) = Range(b.categoryNames.v)
          /\ {c.name : c \in resp'.json.categories} = Range(b.categoryNames.v)
          /\ Cardinality(LinksOf(links', id)) = Cardinality(Range(b.categoryNames.v))]_vars

\* C4 witness: PUT {id, categoryNames: ["B"]} was answered 200 for the only
\* item there is, which is now linked to B alone, while the row of category
\* A, which only a link of this item can have created, is still there.
C4_Witness ==
  /\ resp.op = "PUT" /\ resp.status = 200
  /\ resp.body.categoryNames = Arr(<<"B">>)
  /\ DOMAIN foodItems = {resp.body.id.v}
  /\ issued = 1
  /\ CategoryNamesOf(foodCategories, links, resp.body.id.v) = {"B"}
  /\ \E c \in foodCategories : c.name = "A"

\* C5: a PUT for a stored item whose body carries a quantity that is not
\* greater than 0 is answered with a client error (4xx) and leaves the
\* stored quantity as it was.
C5_QuantityRejected ==
  [][/\ Handled("PUT")
     /\ isValidUpdateBody(resp'.body) /\ resp'.body.id.v \in DOMAIN foodItems
     /\ resp'.body.quantity.t = "number" /\ resp'.body.quantity.v <= 0
     => /\ resp'.status \in 400..499
        /\ resp'.body.id.v \in DOMAIN foodItems'
        /\ foodItems'[resp'.body.id.v].quantity = foodItems[resp'.body.id.v].quantity]_vars

\* A PUT body the handler can apply: a string id, and a date that parses
\* and category names that do not repeat when they are given.
WellFormedUpdate(b) ==
  /\ isValidUpdateBody(b)
  /\ b.expirationDate.t = "undefined" \/ ParseDate(b.expirationDate.v).ok
  /\ \/ b.categoryNames.t = "undefined"
     \/ /\ b.categoryNames.t = "array"
        /\ Cardinality(Range(b.categoryNames.v)) = Len(b.categoryNames.v)

\* C6: a PUT with a session and a well-formed body whose id is no stored
\* item's is answered 404 and changes nothing in storage.
C6_UpdateUnknownId ==
  [][/\ Handled("PUT") /\ resp'.session /\ WellFormedUpdate(resp'.body)
     /\ resp'.body.id.v \notin DOMAIN foodItems
     => resp'.status = 404 /\ UNCHANGED db]_vars

\* The DELETE request accepted in this step, if there is one: the request of
\* the response sent, or of the handler newly suspended.
AcceptedDelete ==
  (IF Handled("DELETE") /\ resp'.session THEN {resp'.body} ELSE {})
    \cup {r.body : r \in {x \in inflight' : \A y \in inflight : y.rid # x.rid}}

\* C7: a DELETE with a session whose id is no stored item's is answered 404
\* in the step that accepts it, and that step changes no item, category or
\* junction row and starts no file deletion.
C7_DeleteUnknownId ==
  [][\A b \in AcceptedDelete :
       isValidDeleteBody(b) /\ b.id.v \notin DOMAIN foodItems =>
         /\ Handled("DELETE")
         /\ resp'.status = 404
         /\ UNCHANGED <<db, fileOps, inflight>>]_vars

\* C7 witness: a DELETE of an unknown id was answered 404 while an item with
\* links and an image is stored.
C7_Witness ==
  /\ resp.op = "DELETE" /\ resp.status = 404 /\ resp.session
  /\ resp.body.id.t = "string"
  /\ \E i \in DOMAIN foodItems :
       LinksOf(links, i) # {} /\ HasFileKey(foodItems[i].imageUrl)

\* C8: a DELETE with a session of a stored item that has an image reference
\* removes the row and its links in the step that accepts it; the response
\* sent afterwards is 200 with the id, and the row is gone then; a file
\* deletion that resolves or rejects changes neither storage nor the
\* response; and the response is sent in every run, also in those where the
\* file deletion never finishes.
C8_DeleteWithImage ==
  /\ [][\A b \in AcceptedDelete :
          /\ isValidDeleteBody(b) /\ b.id.v \in DOMAIN foodItems
          /\ Truthy(foodItems[b.id.v].imageUrl)
          => /\ b.id.v \notin DOMAIN foodItems'
             /\ LinksOf(links', b.id.v) = {}
             /\ \E r \in inflight' : r.body = b /\ r.rid = nreq']_vars
  /\ [][Answered("DELETE") /\ nreq' = nreq =>
          /\ resp'.status = 200
          /\ resp'.json = [deletedId |-> resp'.body.id.v]
          /\ resp'.body.id.v \notin DOMAIN foodItems']_vars
  /\ [][(\E f \in fileOps : f.status = "pending" /\ f \notin fileOps') =>
          UNCHANGED <<db, resp>>]_vars
  /\ \A rid \in 1..MaxRequests :
       (\E r \in inflight : r.rid = rid /\ Truthy(r.imageUrl))
         ~> (resp.rid = rid /\ resp.op = "DELETE" /\ resp.status = 200)

\* C8 witness: the DELETE of an item with an image was answered 200, the row
\* is gone, and the file deletion it started has failed.
C8_Witness ==
  /\ resp.op = "DELETE" /\ resp.status = 200
  /\ resp.json.deletedId \notin DOMAIN foodItems
  /\ \E f \in fileOps :
       f.rid = resp.rid /\ f.item = resp.json.deletedId /\ f.status = "failed"

\* C9: no file deletion has been started for an item whose row is still in
\* the database.
C9_FileAfterCommit == \A f \in fileOps : f.item \notin DOMAIN foodItems

\* The next step of a suspended DELETE handler.
DeleteStep(r) ==
  \/ DELETE_respond(r)
  \/ DELETE_r1_file(r)
  \/ DELETE_r1_awaited(r)
  \/ DELETE_r1_delete(r)

\* C10: a DELETE handler never waits for the file deletion: whatever the
\* state of the file deletions, a suspended handler can take its next step
\* towards the response.
C10_NeverWaitsForFile ==
  \A r \in inflight : r.pc # "update" => ENABLED DeleteStep(r)

-----------------------------------------------------------------------------
(* Reads                                                                   *)

\* This step answers a collection read (GET without id) with its listing.
Listed ==
  /\ Answered("GET") /\ resp'.status = 200 /\ resp'.body.id.t # "string"

\* C11: the listing a collection read returns holds every stored item whose
\* hidden flag is false, each once, and no item whose hidden flag is true.
C11_ListingIsVisibleItems ==
  [][Listed =>
       /\ {resp'.json[i].id : i \in DOMAIN resp'.json}
            = {id \in DOMAIN foodItems : foodItems[id].hidden = FALSE}
       /\ \A i, j \in DOMAIN resp'.json :
            i # j => resp'.json[i].id # resp'.json[j].id
       /\ \A i \in DOMAIN resp'.json : resp'.json[i].hidden = FALSE]_vars

\* C11 witness: a collection read returned the empty listing while the one
\* stored item is hidden.
C11_Witness ==
  /\ resp.op = "GET" /\ resp.status = 200 /\ resp.body.id.t # "string"
  /\ resp.json = <<>>
  /\ \E i \in DOMAIN foodItems : foodItems[i].hidden

\* C12: in the listing of a collection read, each item's expiration date is
\* not later than that of the item after it.
C12_ListingAscending ==
  [][Listed =>
       \A i \in DOMAIN resp'.json :
         i + 1 \in DOMAIN resp'.json =>
           resp'.json[i].expirationDate <= resp'.json[i + 1].expirationDate]_vars

\* C12 witness: a listing of two items of different dates was returned, the
\* item created later first.
C12_Witness ==
  /\ resp.op = "GET" /\ resp.status = 200 /\ resp.body.id.t # "string"
  /\ Len(resp.json) = 2
  /\ resp.json[1].expirationDate < resp.json[2].expirationDate
  /\ resp.json[1].id > resp.json[2].id

-----------------------------------------------------------------------------
(* Sessions and validation                                                 *)

Methods == {"GET", "POST", "PUT", "DELETE"}

\* C13: a request of any method without a valid session is answered 401 with
\* the fixed error body in the step that accepts it, whatever its body or
\* query; that step changes no row, starts no file deletion and leaves no
\* handler suspended.
C13_NoSessionIs401 ==
  [][/\ (\A op \in Methods :
           Handled(op) /\ ~resp'.session =>
             /\ resp'.status = 401
             /\ resp'.json = Error("Unauthorized")
             /\ UNCHANGED <<db, inflight, fileOps>>)
     /\ (nreq' # nreq => resp'.rid = nreq' \/ \E r \in inflight' : r.rid = nreq' /\ r.session)
    ]_vars

\* C13 witness: a DELETE without a session that names a stored item with
\* links was answered 401, and the item is still stored.
C13_Witness ==
  /\ resp.op = "DELETE" /\ ~resp.session /\ resp.status = 401
  /\ isValidDeleteBody(resp.body) /\ resp.body.id.v \in DOMAIN foodItems
  /\ LinksOf(links, resp.body.id.v) # {}

\* The validation a method applies to its body.
ValidBody(op, b) ==
  CASE op = "POST" -> isValidCreateBody(b)
    [] op = "PUT" -> isValidUpdateBody(b)
    [] op = "DELETE" -> isValidDeleteBody(b)

\* C14: a POST, PUT or DELETE with a valid session whose body is malformed
\* or lacks a required field is answered 400 and changes no row.
C14_InvalidBodyIs400 ==
  [][\A op \in {"POST", "PUT", "DELETE"} :
       Handled(op) /\ resp'.session /\ ~ValidBody(op, resp'.body) =>
         /\ resp'.status = 400
         /\ UNCHANGED <<db, inflight, fileOps>>]_vars

\* name.trim() of the form's validation, on the strings of the model.
trim(str) == IF str = " " THEN "" ELSE str

\* The time values of valid dates.
ValidTimes == {ParseDate(d).time : d \in {d \in DateStrings : ParseDate(d).ok}}

\* C15: every stored item has a quantity above 0, a name and a placement
\* that are not blank, and a valid expiration date.
C15_StoredItemsValid ==
  \A id \in DOMAIN foodItems :
    /\ foodItems[id].quantity > 0
    /\ trim(foodItems[id].name) # ""
    /\ trim(foodItems[id].placement) # ""
    /\ foodItems[id].expirationDate \in ValidTimes

\* C16: a POST that passed validation either fails, is answered 500 and
\* leaves every table as it was, or is answered 201 with the new row stored
\* together with one link for each of its category names.
C16_CreateAtomic ==
  [][Handled("POST") /\ resp'.session /\ isValidCreateBody(resp'.body) =>
       IF resp'.status = 201
         THEN /\ issued' \in DOMAIN foodItems' /\ issued' \notin DOMAIN foodItems
              /\ CategoryNamesOf(foodCategories', links', issued')
                   = Range(CreateCategoryNames(resp'.body))
              /\ Cardinality(LinksOf(links', issued'))
                   = Len(CreateCategoryNames(resp'.body))
         ELSE /\ resp'.status = 500
              /\ UNCHANGED <<foodItems, foodCategories, links>>]_vars

\* C16 witness: a POST with a repeated category name, whose second link
\* cannot be created, was answered 500 and no row of any table is stored.
C16_Witness ==
  /\ resp.op = "POST" /\ resp.status = 500 /\ resp.session
  /\ isValidCreateBody(resp.body)
  /\ resp.body.categoryNames = Arr(<<"A", "A">>)
  /\ foodItems = <<>> /\ foodCategories = {} /\ links = {}

\* C19: a GET by id with a session of an id that has no row, deleted or
\* never created, is answered 404; the id of a deleted row never has a row
\* again; a listing holds stored items only; and the 200 response of a
\* DELETE carries the requested id, whose row is gone.
C19_DeletedStaysGone ==
  /\ [][Answered("GET") /\ resp'.session /\ resp'.body.id.t = "string"
          /\ resp'.body.id.v \notin DOMAIN foodItems => resp'.status = 404]_vars
  /\ [][\A id \in 0..issued :
          id \notin DOMAIN foodItems => id \notin DOMAIN foodItems']_vars
  /\ [][Listed =>
          \A i \in DOMAIN resp'.json : resp'.json[i].id \in DOMAIN foodItems]_vars
  /\ [][Answered("DELETE") /\ resp'.status = 200 =>
          /\ resp'.json.deletedId = resp'.body.id.v
          /\ resp'.body.id.v \notin DOMAIN foodItems']_vars

\* C19 witness: a GET of the id of a deleted item was answered 404.
C19_Witness ==
  /\ resp.op = "GET" /\ resp.session /\ resp.status = 404
  /\ resp.body.id.t = "string" /\ resp.body.id.v \in 1..issued
  /\ resp.body.id.v \notin DOMAIN foodItems

-----------------------------------------------------------------------------
(* Atomicity of the update                                                 *)

\* The names of the categories of a set of junction rows.
NamesOfLinks(cats, lnks) ==
  {c.name : c \in {c \in cats : c.id \in {l.foodCategoryId : l \in lnks}}}

\* C17: a PUT with a session and a string id that is not answered 200
\* leaves every row and every link as they were before the request: the
\* step that answers it changes nothing, and the links its deleteMany
\* removed from an item that is still stored are in storage again.
C17_FailedUpdateKeepsLinks ==
  /\ [][Handled("PUT") /\ resp'.session /\ isValidUpdateBody(resp'.body)
          /\ resp'.status # 200
          => UNCHANGED <<foodItems, foodCategories, links>>]_vars
  /\ [][\A r \in inflight :
          r.pc = "update" /\ inflight = {r} /\ inflight' = {}
          /\ resp'.status # 200 /\ r.body.id.v \in DOMAIN foodItems'
          => /\ r.removed \subseteq links'
             /\ foodItems' = foodItems]_vars

\* C18: the links and fields of a stored item change only in the step that
\* answers a PUT of that item with 200, and that step leaves the item with
\* its new fields and, when it has a category list, exactly the links of
\* that list; and a GET by id that is answered while a PUT of the item is
\* between its deleteMany and its update returns the item with either the
\* categories it had before or those of the PUT's list.
C18_NoPartialWriteRead ==
  /\ [][\A id \in DOMAIN foodItems \cap DOMAIN foodItems' :
          LinksOf(links', id) # LinksOf(links, id) \/ foodItems'[id] # foodItems[id]
          => /\ Answered("PUT") /\ resp'.status = 200 /\ resp'.body.id.v = id
             /\ foodItems'[id] = UpdateData(foodItems[id], resp'.body)
             /\ resp'.body.categoryNames.t = "array" =>
                  CategoryNamesOf(foodCategories', links', id)
                    = Range(resp'.body.categoryNames.v)]_vars
  /\ [][\A r \in inflight :
          r.pc = "update" /\ inflight = {r}
          /\ Answered("GET") /\ resp'.status = 200
          /\ resp'.body.id.t = "string" /\ resp'.body.id.v = r.body.id.v
          => {c.foodCategory.name : c \in resp'.json.categories}
               \in {NamesOfLinks(foodCategories, r.removed),
                    Range(r.body.categoryNames.v)}]_vars

-----------------------------------------------------------------------------
(* Two updates of one item                                                 *)

\* C20: when a PUT with a category list finishes after a PUT of the same
\* item, also with a category list, that was accepted later and answered 200
\* while the first was still running, it is answered 200 too and leaves the
\* item with exactly the categories of one of the two lists.
C20_LastWriteWins ==
  [][\A r \in inflight :
       /\ r.pc = "tx_update" /\ inflight = {r} /\ inflight' = {}
       /\ r.body.categoryNames.t = "array"
       /\ resp.op = "PUT" /\ resp.status = 200 /\ resp.rid > r.rid
       /\ resp.body.id.v = r.body.id.v
       /\ resp.body.categoryNames.t = "array"
       => /\ resp'.status = 200
          /\ CategoryNamesOf(foodCategories', links', r.body.id.v)
               \in {Range(r.body.categoryNames.v),
                    Range(resp.body.categoryNames.v)}]_vars

-----------------------------------------------------------------------------
(* The junction table                                                      *)

\* C22: every junction row references a stored item and a stored category.
C22_ReferentialIntegrity ==
  \A l \in links :
    /\ l.foodItemId \in DOMAIN foodItems
    /\ \E c \in foodCategories : c.id = l.foodCategoryId

\* C22 witness: an item with links was deleted: DELETE was answered 200, no
\* item and no junction row is left, and the categories of the item are.
C22_Witness ==
  /\ resp.op = "DELETE" /\ resp.status = 200
  /\ foodItems = <<>> /\ links = {} /\ foodCategories # {}

\* This step answers a POST or a PUT that carries a category list with
\* success; the item it wrote.
WroteLinks ==
  /\ Handled("POST") \/ Handled("PUT")
  /\ resp'.status \in {200, 201}
  /\ resp'.body.categoryNames.t = "array"

\* C23: a create or update that succeeds has inserted one junction row for
\* each entry of its category list, and the item then has as many links to
\* different categories as the list has entries: no pair (item, category)
\* has two rows.  A list that repeats a name is answered 500 and writes
\* nothing.
C23_OneLinkPerPair ==
  /\ [][WroteLinks =>
          Cardinality(LinksOf(links', resp'.json.id))
            = Len(resp'.body.categoryNames.v)]_vars
  /\ [][(Handled("POST") \/ Handled("PUT")) /\ resp'.session
          /\ ValidBody(resp'.op, resp'.body)
          /\ resp'.body.categoryNames.t = "array"
          /\ Cardinality(Range(resp'.body.categoryNames.v))
               < Len(resp'.body.categoryNames.v)
          => resp'.status = 500 /\ UNCHANGED db]_vars

\* C23 witness: a PUT whose list repeats a name was answered 500 and the
\* item still has its one link.
C23_Witness ==
  /\ resp.op = "PUT" /\ resp.status = 500 /\ isValidUpdateBody(resp.body)
  /\ resp.body.categoryNames = Arr(<<"B", "B">>)
  /\ resp.body.id.v \in DOMAIN foodItems
  /\ Cardinality(LinksOf(links, resp.body.id.v)) = 1

\* C24: a PUT with a category list that is answered 200 directly after a
\* PUT of the same id and the same list that was answered 200 leaves the
\* links of the item and the FoodCategory rows as they were.
C24_UpdateIdempotent ==
  [][/\ Handled("PUT") /\ resp'.status = 200
     /\ resp.op = "PUT" /\ resp.status = 200 /\ resp'.rid = resp.rid + 1
     /\ resp'.body.id.v = resp.body.id.v
     /\ resp'.body.categoryNames.t = "array"
     /\ resp.body.categoryNames.t = "array"
     /\ resp'.body.categoryNames.v = resp.body.categoryNames.v
     => /\ LinksOf(links', resp.body.id.v) = LinksOf(links, resp.body.id.v)
        /\ foodCategories' = foodCategories]_vars

\* C24 witness: a PUT with the list [B] was answered 200, the item has
\* category B alone, and a further request can follow.
C24_Witness ==
  /\ resp.op = "PUT" /\ resp.status = 200 /\ nreq < MaxRequests
  /\ resp.body.categoryNames.t = "array"
  /\ resp.body.categoryNames.v = <<"B">>
  /\ CategoryNamesOf(foodCategories, links, resp.body.id.v) = {"B"}

\* C26: a GET by id with a session of a stored item is answered 200 with
\* the item, its fields and its categories, whether it is hidden or not; a
\* PUT answered 200 that carries hidden sets the flag and leaves the links
\* alone when it has no category list; and a listing holds the items whose
\* flag is false.
C26_HiddenStaysAddressable ==
  /\ [][Answered("GET") /\ resp'.session /\ resp'.body.id.t = "string"
          /\ resp'.body.id.v \in DOMAIN foodItems
          => /\ resp'.status = 200
             /\ resp'.json = foodItemSelect(foodItems, foodCategories, links,
                                            resp'.body.id.v)]_vars
  /\ [][Handled("PUT") /\ resp'.status = 200 /\ resp'.body.hidden.t = "boolean"
          => /\ foodItems'[resp'.body.id.v].hidden = resp'.body.hidden.v
             /\ resp'.body.categoryNames.t = "undefined" =>
                  LinksOf(links', resp'.body.id.v) = LinksOf(links, resp'.body.id.v)]_vars
  /\ [][Listed =>
          \A id \in DOMAIN foodItems :
            (\E i \in DOMAIN resp'.json : resp'.json[i].id = id)
              <=> foodItems[id].hidden = FALSE]_vars

\* C26 witness: a GET by id was answered 200 with a hidden item and its
\* categories.
C26_Witness ==
  /\ resp.op = "GET" /\ resp.status = 200 /\ resp.body.id.t = "string"
  /\ resp.json.hidden = TRUE /\ resp.json.categories # {}

-----------------------------------------------------------------------------
(* Two creators of one category name                                       *)

\* C21: a POST or PUT whose lookup found no row for one of its category
\* names, and whose writes would all succeed on the rows committed by now,
\* is answered with success, whatever the requests that ran next to it
\* have committed since its lookup; and each name has one FoodCategory row.
C21_ConcurrentCreatorsSucceed ==
  /\ [][\A r \in inflight :
          /\ r.missing # {} /\ \A o \in inflight' : o.rid # r.rid
          /\ IF r.pc = "tx_create" THEN CreateTx(r.body).ok ELSE UpdateTx(r.body).ok
          => resp'.rid = r.rid /\ resp'.status \in {200, 201}]_vars
  /\ [](\A c, d \in foodCategories : c.name = d.name => c = d)

-----------------------------------------------------------------------------
(* Two deletions of one item                                               *)

\* C29: the delete of a DELETE transaction either removes the row, and the
\* handler goes on to its 200 response, or finds the row gone, deleted by
\* a request that ran next to it, and is answered 404; a DELETE with a
\* session and a string id is never answered 500, and 200 only by a handler
\* whose transaction removed the row, with the id it asked for; and no item
\* has two file deletions requested for it.
C29_ConcurrentDeletes ==
  /\ [][\A r \in inflight :
          r.pc = "tx_delete" /\ r \notin inflight'
          => IF r.body.id.v \in DOMAIN foodItems
               THEN /\ r.body.id.v \notin DOMAIN foodItems'
                    /\ [r EXCEPT !.pc = "committed"] \in inflight'
                    /\ resp' = resp
               ELSE /\ resp'.rid = r.rid /\ resp'.status = 404
                    /\ \A o \in inflight' : o.rid # r.rid]_vars
  /\ [][Answered("DELETE") /\ resp'.session /\ isValidDeleteBody(resp'.body)
          => /\ resp'.status \in {200, 404}
             /\ resp'.status = 200 =>
                  /\ resp'.json.deletedId = resp'.body.id.v
                  /\ \E r \in inflight : r.rid = resp'.rid /\ r.pc = "committed"]_vars
  /\ [](\A f, g \in fileOps : f.item = g.item => f.rid = g.rid)

\* C29 witness: a DELETE that found the row and then lost it to a DELETE
\* accepted after it was answered 404; the other one has requested the
\* deletion of the image.
C29_Witness ==
  /\ resp.op = "DELETE" /\ resp.status = 404
  /\ \E f \in fileOps : f.item = resp.body.id.v /\ f.rid > resp.rid

-----------------------------------------------------------------------------
(* Timestamps                                                              *)

\* C25: no step changes the createdAt of a stored item, a PUT answered 200
\* answers with the id it was asked for and leaves the set of ids as it
\* was, and it leaves the item's updatedAt later than it was before.
C25_UpdatedAtStrictlyLater ==
  /\ [][\A id \in DOMAIN foodItems \cap DOMAIN foodItems' :
          foodItems'[id].createdAt = foodItems[id].createdAt]_vars
  /\ [][Handled("PUT") /\ resp'.status = 200
          => /\ resp'.json.id = resp'.body.id.v
             /\ DOMAIN foodItems' = DOMAIN foodItems
             /\ foodItems'[resp'.body.id.v].updatedAt
                  > foodItems[resp'.body.id.v].updatedAt]_vars

-----------------------------------------------------------------------------
(* The listing page                                                        *)

\* The place of an item in the fetched snapshot.
IndexOf(item) == CHOOSE i \in DOMAIN page.foodItems : page.foodItems[i] = item

\* The items of the snapshot the search keeps.
Kept ==
  IF trimString(page.searchTerm) = <<>> THEN Range(page.foodItems)
  ELSE {item \in Range(page.foodItems) :
          Matches(item, trimString(toLowerCase(page.searchTerm)))}

\* a is not after b by the key of an ordering: the name (as localeCompare
\* orders names) ascending, the quantity descending, the quantity ascending,
\* the time of the expiration date ascending.
NotAfter(order, a, b) ==
  CASE order = "name-asc" -> localeCompare(a.name, b.name) <= 0
    [] order = "quantity-desc" -> a.quantity >= b.quantity
    [] order = "quantity-asc" -> a.quantity <= b.quantity
    [] order = "date-new-to-old" ->
         ParseDate(a.expirationDate).time <= ParseDate(b.expirationDate).time

Containing(term) ==
  {item \in Range(page.foodItems) :
     \/ includes(toLowerCase(item.name), term)
     \/ \E i \in DOMAIN item.keywords : includes(toLowerCase(item.keywords[i]), term)
     \/ includes(toLowerCase(item.placement), term)
     \/ \E i \in DOMAIN item.categories :
          includes(toLowerCase(item.categories[i].foodCategory.name), term)}

\* There is no search term: the box is empty or holds spaces only.
NoSearchTerm == \A i \in DOMAIN page.searchTerm : page.searchTerm[i] = " "

\* A step of the search box or of the sort menu.
Filtering == page'.searchTerm # page.searchTerm \/ page'.sortOrder # page.sortOrder

\* C28: with a search term the items shown are exactly the items of the
\* snapshot that contain the lower-cased term; with none they are all the
\* items of the snapshot; a step of the search box or of the sort menu
\* leaves the snapshot as it is.
C28_LowerCasedTermKept ==
  /\ [](Range(page.shown) = IF NoSearchTerm THEN Range(page.foodItems)
                             ELSE Containing(toLowerCase(page.searchTerm)))
  /\ [][Filtering => page'.foodItems = page.foodItems]_vars

\* C28, amended: as above, the term being the lower-cased term without the
\* spaces at its ends.
C28_TrimmedTermKept ==
  /\ [](Range(page.shown) = IF NoSearchTerm THEN Range(page.foodItems)
                             ELSE Containing(trimString(toLowerCase(page.searchTerm))))
  /\ [][Filtering => page'.foodItems = page.foodItems]_vars

\* C28 witness: the term " B" is searched in a snapshot of three items, and
\* two are shown.
C28_Witness ==
  /\ page.searchTerm = <<" ", "B">>
  /\ Len(page.foodItems) = 3
  /\ Len(page.shown) = 2

\* A call of fetchFoodItems is under way.
Fetching == page.pc \in {"fetch", "json"}

\* C30: a call of fetchFoodItems that is under way ends, and loading is
\* false then, whatever is answered and whenever; a call the timer ends
\* ends with the timed-out message.
C30_FetchEnds ==
  /\ Fetching ~> (~Fetching /\ ~page.loading)
  /\ [][Timeout /\ Fetching
         => page'.error = "Request timed out. Please check your connection."]_vars

====
